---- MODULE Spec2Model ----
(***************************************************************************)
(* Model of the template-service store (internal/database/db.go), its     *)
(* row/DTO types (models) and the read handlers (internal/handler).       *)
(*                                                                         *)
(* The four tables are sets of rows; a row's ID column stands for the      *)
(* uuid.New() value it is given.  CreateTemplate runs inside               *)
(* gorm's Transaction: its inserts go to a transaction-local set of rows   *)
(* that becomes part of the tables only when the closure returns nil and   *)
(* the commit succeeds.  Readers run one main query followed by the two    *)
(* Preload queries, each a separate statement that sees committed rows.    *)
(* Timestamps, Description, Type, Category, IsPublic and Required are      *)
(* copied verbatim by the code and take part in no decision; they are not  *)
(* carried by the rows of the model.                                       *)
(***************************************************************************)
EXTENDS Naturals, Sequences, FiniteSets

(***************************** bounds **************************************)
\* CreateTemplate calls of the sequential client
MaxCalls == 1
\* fields per CreateTemplate input
MaxFields == 2
\* rows of template_history
MaxHistory == 2

(***************************** values **************************************)
Writers == {"w1", "w2"}
Owners == {"userA", "userB"}
Names == {"invoice", "letter"}
Contents == {"Hello {{name}}"}
Keys == {"k1", "k2"}
Labels == {"Label"}
FieldTypes == {"", "number"}

Nil == "nil"
\* uuid.UUID{}: the zero identifier
NilUUID == 0
NilOptions == <<"nil">>

SeqsUpTo(S, n) == UNION {[1..k -> S] : k \in 0..n}

\* every order in which a query may return the rows of S
RowOrders(S) == {s \in [1..Cardinality(S) -> S] : \A i, j \in 1..Cardinality(S) : i # j => s[i] # s[j]}

(***************************** uuid ****************************************)
\* uuid.UUID.String(): the textual form of an identifier
UuidString(u) == <<"uuid", u>>

MalformedID == <<"not-a-uuid">>

\* uuid.Parse: the identifier of a well-formed text, an error otherwise
UuidParse(s) == IF Len(s) = 2 /\ s[1] = "uuid" THEN [err |-> Nil, id |-> s[2]] ELSE [err |-> "invalid UUID", id |-> NilUUID]

(***************************** json ****************************************)
\* json.Unmarshal on a blob of array brackets: the position after the value
\* that starts at i, or 0 when there is no well-formed value there
RECURSIVE JsonValueEnd(_, _)
JsonValueEnd(s, i) ==
    IF i > Len(s) \/ s[i] # "[" THEN 0
    ELSE IF i + 1 <= Len(s) /\ s[i + 1] = "]" THEN i + 2
    ELSE LET j == JsonValueEnd(s, i + 1)
         IN IF j # 0 /\ j <= Len(s) /\ s[j] = "]" THEN j + 1 ELSE 0

JsonUnmarshalOk(s) == JsonValueEnd(s, 1) = Len(s) + 1

(***************************** errors **************************************)
ErrStorage == "storage failure"
ErrDuplicateKey == "duplicate key value violates unique constraint"
ErrJSON == "invalid JSON"
ErrInvalidUUID == "invalid UUID"
ErrRecordNotFound == "record not found"
ErrMissingUserHeader == "X-User-ID header is required"

(***************************** state ***************************************)
VARIABLES
    templates,          \* committed rows of table templates
    template_versions,  \* committed rows of table template_versions
    template_fields,    \* committed rows of table template_fields
    template_history,   \* committed rows of table template_history, in insertion order
    nextID,             \* the next value uuid.New() gives to a template
    wpc,                \* writer -> position inside CreateTemplate
    wcall,              \* writer -> [userID, input] of the running call
    wtid,               \* writer -> templateID of the running call
    wi,                 \* writer -> index of the next field of the loop
    wtx,                \* writer -> rows inserted by the open transaction
    wres,               \* writer -> [err, id] returned by the call
    rpc,                \* position of the read handler
    rcall,              \* [op, userID, templateID] of the running read
    rres,               \* [err, templates] the read returned so far
    hres                \* [call, err] of the last CreateHistory / GetHistory

storeVars == <<templates, template_versions, template_fields>>
writerVars == <<nextID, wpc, wcall, wtid, wi, wtx, wres>>
readerVars == <<rpc, rcall, rres>>
historyVars == <<template_history, hres>>
vars == <<storeVars, writerVars, readerVars, historyVars>>

EmptyTx == [templates |-> {}, versions |-> {}, fields |-> {}]
NoCall == [userID |-> Nil, input |-> [Name |-> Nil, Content |-> Nil, Fields |-> <<>>]]
NoResult == [err |-> Nil, id |-> NilUUID]
NoRead == [op |-> Nil, userID |-> Nil, templateID |-> Nil]
NoReadResult == [err |-> Nil, templates |-> {}]
NoHistoryResult == [call |-> [op |-> Nil, template |-> Nil, userID |-> Nil], err |-> Nil, rows |-> {}]

\* main(): database.Init, then AutoMigrate on an empty database
Init ==
    /\ templates = {}
    /\ template_versions = {}
    /\ template_fields = {}
    /\ template_history = <<>>
    /\ nextID = 1
    /\ wpc = [w \in Writers |-> "idle"]
    /\ wcall = [w \in Writers |-> NoCall]
    /\ wtid = [w \in Writers |-> NilUUID]
    /\ wi = [w \in Writers |-> 1]
    /\ wtx = [w \in Writers |-> EmptyTx]
    /\ wres = [w \in Writers |-> NoResult]
    /\ rpc = "idle"
    /\ rcall = NoRead
    /\ rres = NoReadResult
    /\ hres = NoHistoryResult

(***************************** storage layer *******************************)
\* AutoMigrate: idx_template_version_unique ON template_versions (template_id, version)
idx_template_version_unique(rows, new) == \A r \in rows : ~(r.TemplateID = new.TemplateID /\ r.Version = new.Version)

\* a store whose template_fields table lacks the unique index
NoFieldKeyIndex(rows, new) == TRUE

\* AutoMigrate: idx_template_field_key ON template_fields (template_id, key)
idx_template_field_key(rows, new) == \A r \in rows : ~(r.TemplateID = new.TemplateID /\ r.Key = new.Key)

\* a store that keeps the rows of a failed closure (no rollback)
KeepAll(tx, err) == tx

\* what the transaction leaves in the tables when its closure returns err:
\* its rows on nil (commit), nothing otherwise (rollback)
Transaction(tx, err) == IF err = Nil THEN tx ELSE EmptyTx

\* a read that also sees the rows of transactions still open (dirty read)
DirtyRows ==
    [templates |-> templates \cup UNION {wtx[w].templates : w \in Writers},
     versions |-> template_versions \cup UNION {wtx[w].versions : w \in Writers},
     fields |-> template_fields \cup UNION {wtx[w].fields : w \in Writers}]

\* rows a statement outside the transaction sees: the committed ones
ReadView == [templates |-> templates, versions |-> template_versions, fields |-> template_fields]

\* rows a statement of writer w's transaction sees: committed and its own
TxView(w) ==
    [templates |-> templates \cup wtx[w].templates,
     versions |-> template_versions \cup wtx[w].versions,
     fields |-> template_fields \cup wtx[w].fields]

(***************************** CreateTemplate ******************************)
NewTemplate(tid, userID, input) == [ID |-> tid, UserID |-> userID, Name |-> input.Name]

\* a first version whose Version column is left at its zero value
NewVersionUnnumbered(tid, input) == [ID |-> <<tid, "v1">>, TemplateID |-> tid, Version |-> 0, Content |-> input.Content]

NewVersion(tid, input) == [ID |-> <<tid, "v1">>, TemplateID |-> tid, Version |-> 1, Content |-> input.Content]

\* the type copied without the default
FieldTypeVerbatim(t) == t

FieldTypeDefault(t) == IF t = "" THEN "text" ELSE t

\* a field literal that forgets the label
NewFieldNoLabel(tid, i, f) ==
    [ID |-> <<tid, i>>, TemplateID |-> tid, Key |-> f.Key, Label |-> "",
     Type |-> FieldTypeDefault(f.Type), Options |-> NilOptions]

\* the TemplateField built by the loop body; Options is never assigned
NewField(tid, i, f) ==
    [ID |-> <<tid, i>>, TemplateID |-> tid, Key |-> f.Key, Label |-> f.Label,
     Type |-> FieldTypeDefault(f.Type), Options |-> NilOptions]

\* a loop body without the options check
NoOptionsCheck(opts) == Nil

\* if f.Options != nil { json.Unmarshal(f.Options, &jsonCheck) }
ValidateFieldOptions(opts) == IF opts # NilOptions /\ ~JsonUnmarshalOk(opts) THEN ErrJSON ELSE Nil

\* the closure has returned err to Transaction: commit or roll back, then
\* return (uuid.UUID{}, err) or (templateID, nil)
TxEnd(w, tx, err) ==
    LET kept == Transaction(tx, err)
    IN /\ templates' = templates \cup kept.templates
       /\ template_versions' = template_versions \cup kept.versions
       /\ template_fields' = template_fields \cup kept.fields
       /\ wtx' = [wtx EXCEPT ![w] = EmptyTx]
       /\ wres' = [wres EXCEPT ![w] = [err |-> err, id |-> IF err = Nil THEN wtid[w] ELSE NilUUID]]
       /\ wpc' = [wpc EXCEPT ![w] = "done"]

TxContinue(w, tx, pc) ==
    /\ wtx' = [wtx EXCEPT ![w] = tx]
    /\ wpc' = [wpc EXCEPT ![w] = pc]
    /\ UNCHANGED <<storeVars, wres>>

\* entry (a writer that has returned serves the next request): Transaction
\* begins, templateID = uuid.New()
CreateTemplate(w, userID, input) ==
    /\ wpc[w] \in {"idle", "done"}
    /\ wpc' = [wpc EXCEPT ![w] = "template"]
    /\ wcall' = [wcall EXCEPT ![w] = [userID |-> userID, input |-> input]]
    /\ wtid' = [wtid EXCEPT ![w] = nextID]
    /\ nextID' = nextID + 1
    /\ wi' = [wi EXCEPT ![w] = 1]
    /\ wtx' = [wtx EXCEPT ![w] = EmptyTx]
    /\ wres' = [wres EXCEPT ![w] = NoResult]
    /\ UNCHANGED <<storeVars, readerVars, historyVars>>

\* tx.Create(&template)
TxCreateTemplate(w, fail) ==
    /\ wpc[w] = "template"
    /\ LET row == NewTemplate(wtid[w], wcall[w].userID, wcall[w].input)
           err == IF fail THEN ErrStorage ELSE Nil
       IN IF err # Nil
          THEN TxEnd(w, wtx[w], err)
          ELSE TxContinue(w, [wtx[w] EXCEPT !.templates = @ \cup {row}], "version")
    /\ UNCHANGED <<nextID, wcall, wtid, wi, readerVars, historyVars>>

\* tx.Create(&version)
TxCreateVersion(w, fail) ==
    /\ wpc[w] = "version"
    /\ LET row == NewVersion(wtid[w], wcall[w].input)
           err == IF fail THEN ErrStorage
                  ELSE IF ~idx_template_version_unique(TxView(w).versions, row) THEN ErrDuplicateKey
                  ELSE Nil
       IN IF err # Nil
          THEN TxEnd(w, wtx[w], err)
          ELSE TxContinue(w, [wtx[w] EXCEPT !.versions = @ \cup {row}],
                          IF Len(wcall[w].input.Fields) = 0 THEN "commit" ELSE "field")
    /\ UNCHANGED <<nextID, wcall, wtid, wi, readerVars, historyVars>>

\* one iteration of: for _, f := range input.Fields
TxCreateField(w, fail) ==
    /\ wpc[w] = "field"
    /\ LET f == wcall[w].input.Fields[wi[w]]
           row == NewField(wtid[w], wi[w], f)
           err == IF ValidateFieldOptions(f.Options) # Nil THEN ValidateFieldOptions(f.Options)
                  ELSE IF fail THEN ErrStorage
                  ELSE IF ~idx_template_field_key(TxView(w).fields, row) THEN ErrDuplicateKey
                  ELSE Nil
       IN IF err # Nil
          THEN TxEnd(w, wtx[w], err) /\ UNCHANGED wi
          ELSE /\ TxContinue(w, [wtx[w] EXCEPT !.fields = @ \cup {row}],
                             IF wi[w] = Len(wcall[w].input.Fields) THEN "commit" ELSE "field")
               /\ wi' = [wi EXCEPT ![w] = @ + 1]
    /\ UNCHANGED <<nextID, wcall, wtid, readerVars, historyVars>>

\* return nil: Transaction commits (the commit itself may fail)
TxCommit(w, fail) ==
    /\ wpc[w] = "commit"
    /\ TxEnd(w, wtx[w], IF fail THEN ErrStorage ELSE Nil)
    /\ UNCHANGED <<nextID, wcall, wtid, wi, readerVars, historyVars>>

(***************************** reads ***************************************)
EmptyString == <<>>

\* models.Template as loaded by gorm: the row and its two relations
Loaded(row, fields, versions) ==
    [ID |-> row.ID, UserID |-> row.UserID, Name |-> row.Name, Fields |-> fields, Versions |-> versions]

\* a filter on the identifier alone, without the owner
WhereID(rows, templateID, userID) == {t \in rows : t.ID = templateID}

\* Where("id = ? AND user_id = ?", templateID, userID)
WhereIDAndUser(rows, templateID, userID) == {t \in rows : t.ID = templateID /\ t.UserID = userID}

\* Where("user_id = ?", userID)
WhereUser(rows, userID) == {t \in rows : t.UserID = userID}

\* the orders in which one Preload query can hand each loaded template the
\* rows that reference it
PreloadOrders(loaded, rows) ==
    LET ids == {t.ID : t \in loaded}
        of(id) == {r \in rows : r.TemplateID = id}
        all == UNION {RowOrders(of(id)) : id \in ids}
    IN {f \in [ids -> all] : \A id \in ids : f[id] \in RowOrders(of(id))}

ReadEnd(err, loaded) ==
    /\ rres' = [err |-> err, templates |-> loaded]
    /\ rpc' = "done"

\* handler GetTemplateByID up to and including the main query of
\* Database.GetTemplateByID (First)
GetTemplateByID(userIDStr, templateIDStr, fail) ==
    /\ rpc = "idle"
    /\ rcall' = [op |-> "GetTemplateByID", userID |-> userIDStr, templateID |-> templateIDStr]
    /\ LET tid == UuidParse(templateIDStr)
           uid == UuidParse(userIDStr)
           found == WhereIDAndUser(ReadView.templates, tid.id, uid.id)
       IN IF userIDStr = EmptyString THEN ReadEnd(ErrMissingUserHeader, {})
          ELSE IF tid.err # Nil THEN ReadEnd(tid.err, {})
          ELSE IF uid.err # Nil THEN ReadEnd(uid.err, {})
          ELSE IF fail THEN ReadEnd(ErrStorage, {})
          ELSE IF found = {} THEN ReadEnd(ErrRecordNotFound, {})
          ELSE /\ rres' = [err |-> Nil, templates |-> {Loaded(t, <<>>, <<>>) : t \in found}]
               /\ rpc' = "preloadFields"
    /\ UNCHANGED <<storeVars, writerVars, historyVars>>

\* handler GetTemplates up to and including the main query of
\* Database.GetTemplates (Find)
GetTemplates(userIDStr, fail) ==
    /\ rpc = "idle"
    /\ rcall' = [op |-> "GetTemplates", userID |-> userIDStr, templateID |-> Nil]
    /\ LET uid == UuidParse(userIDStr)
           found == WhereUser(ReadView.templates, uid.id)
       IN IF userIDStr = EmptyString THEN ReadEnd(ErrMissingUserHeader, {})
          ELSE IF uid.err # Nil THEN ReadEnd(uid.err, {})
          ELSE IF fail THEN ReadEnd(ErrStorage, {})
          ELSE IF found = {} THEN ReadEnd(Nil, {})
          ELSE /\ rres' = [err |-> Nil, templates |-> {Loaded(t, <<>>, <<>>) : t \in found}]
               /\ rpc' = "preloadFields"
    /\ UNCHANGED <<storeVars, writerVars, historyVars>>

\* Preload("Fields"): a second statement, run after the main query
PreloadFields(fail) ==
    /\ rpc = "preloadFields"
    /\ IF fail THEN ReadEnd(ErrStorage, rres.templates)
       ELSE \E f \in PreloadOrders(rres.templates, ReadView.fields) :
               /\ rres' = [rres EXCEPT !.templates = {[t EXCEPT !.Fields = f[t.ID]] : t \in @}]
               /\ rpc' = "preloadVersions"
    /\ UNCHANGED <<storeVars, writerVars, historyVars, rcall>>

\* Preload("Versions"): a third statement; then the method returns
PreloadVersions(fail) ==
    /\ rpc = "preloadVersions"
    /\ IF fail THEN ReadEnd(ErrStorage, rres.templates)
       ELSE \E f \in PreloadOrders(rres.templates, ReadView.versions) :
               ReadEnd(Nil, {[t EXCEPT !.Versions = f[t.ID]] : t \in rres.templates})
    /\ UNCHANGED <<storeVars, writerVars, historyVars, rcall>>

\* the response has been written; the handler serves the next request
ReadReturn ==
    /\ rpc = "done"
    /\ rpc' = "idle"
    /\ rcall' = NoRead
    /\ rres' = NoReadResult
    /\ UNCHANGED <<storeVars, writerVars, historyVars>>

(***************************** DTOs and responses **************************)
NoVersionDTO == [Version |-> 0, Content |-> ""]

FieldDTO(f) == [Key |-> f.Key, Label |-> f.Label, Type |-> f.Type, Options |-> f.Options]

\* Template.ToDTO: the fields in loaded order, Versions[0] as the version
ToDTO(t) ==
    [ID |-> UuidString(t.ID),
     Name |-> t.Name,
     Fields |-> [i \in 1..Len(t.Fields) |-> FieldDTO(t.Fields[i])],
     Version |-> IF Len(t.Versions) > 0
                 THEN [Version |-> t.Versions[1].Version, Content |-> t.Versions[1].Content]
                 ELSE NoVersionDTO]

StatusOK == 200
StatusBadRequest == 400
StatusInternalServerError == 500

\* what handler GetTemplateByID writes for the result res of the store call
GetTemplateByIDResponse(res) ==
    IF res.err = ErrMissingUserHeader
    THEN [status |-> StatusBadRequest, error |-> "X-User-ID header is required", data |-> {}]
    ELSE IF res.err # Nil
    THEN [status |-> StatusInternalServerError, error |-> "Failed to retrieve template", data |-> {}]
    ELSE [status |-> StatusOK, error |-> Nil, data |-> {ToDTO(t) : t \in res.templates}]

\* what handler GetTemplates writes for the result res of the store call
GetTemplatesResponse(res) ==
    IF res.err = ErrMissingUserHeader
    THEN [status |-> StatusBadRequest, error |-> "X-User-ID header is required", data |-> {}]
    ELSE IF res.err # Nil
    THEN [status |-> StatusInternalServerError, error |-> "Failed to retrieve templates", data |-> {}]
    ELSE [status |-> StatusOK, error |-> Nil, data |-> {ToDTO(t) : t \in res.templates}]

(***************************** history **************************************)
\* the TemplateHistory row CreateHistory builds; the row number stands for uuid.New()
NewHistory(n, template, userID, templateID) ==
    [ID |-> n, UserID |-> userID, TemplateID |-> templateID,
     TemplateName |-> template.Name, Version |-> template.Version.Version]

SameEntry(a, b) == [a EXCEPT !.ID = 0] = [b EXCEPT !.ID = 0]

\* an insert that skips an entry already logged
CreateUnlessLogged(rows, row) ==
    IF \E i \in 1..Len(rows) : SameEntry(rows[i], row) THEN rows ELSE Append(rows, row)

\* an insert that replaces the entry the user already has for the template
CreateOrReplace(rows, row) ==
    IF \E i \in 1..Len(rows) : rows[i].UserID = row.UserID /\ rows[i].TemplateID = row.TemplateID
    THEN [i \in 1..Len(rows) |->
            IF rows[i].UserID = row.UserID /\ rows[i].TemplateID = row.TemplateID
            THEN [row EXCEPT !.ID = rows[i].ID] ELSE rows[i]]
    ELSE Append(rows, row)

\* d.db.Create(&data): one INSERT into template_history
Create(rows, row) == Append(rows, row)

\* Database.CreateHistory(template, userID)
CreateHistory(template, userID, fail) ==
    /\ Len(template_history) < MaxHistory
    /\ LET tid == UuidParse(template.ID)
           err == IF tid.err # Nil THEN tid.err ELSE IF fail THEN ErrStorage ELSE Nil
       IN /\ template_history' =
                IF err = Nil
                THEN Create(template_history, NewHistory(Len(template_history) + 1, template, userID, tid.id))
                ELSE template_history
          /\ hres' = [call |-> [op |-> "CreateHistory", template |-> template, userID |-> userID],
                      err |-> err, rows |-> {}]
    /\ UNCHANGED <<storeVars, writerVars, readerVars>>

\* Database.GetHistory(userID)
GetHistory(userID, fail) ==
    /\ hres' = [call |-> [op |-> "GetHistory", template |-> Nil, userID |-> userID],
                err |-> IF fail THEN ErrStorage ELSE Nil,
                rows |-> IF fail THEN {} ELSE {template_history[i] : i \in {j \in 1..Len(template_history) : template_history[j].UserID = userID}}]
    /\ UNCHANGED <<storeVars, writerVars, readerVars, template_history>>

(***************************** template changes *****************************)
\* versions a template may accumulate
MaxVersions == 2

\* contents given to later versions
NewContents == {"Dear {{name}}"}

LatestVersionOf(rows, tid) ==
    CHOOSE v \in {r \in rows : r.TemplateID = tid} :
        \A u \in {r \in rows : r.TemplateID = tid} : u.Version <= v.Version

\* the update path (route POST /templates/:id/update): the owner renames the
\* template and stores the changed content as a new version, numbered one above
\* the latest, in one transaction
UpdateTemplate(userID, templateID, name, content) ==
    /\ \E t \in WhereIDAndUser(templates, templateID, userID) :
          LET latest == LatestVersionOf(template_versions, templateID)
              row == [ID |-> <<templateID, latest.Version + 1>>, TemplateID |-> templateID,
                      Version |-> latest.Version + 1, Content |-> content]
          IN /\ latest.Version < MaxVersions
             /\ idx_template_version_unique(template_versions, row)
             /\ templates' = (templates \ {t}) \cup {[t EXCEPT !.Name = name]}
             /\ template_versions' = template_versions \cup {row}
    /\ UNCHANGED <<template_fields, writerVars, readerVars, historyVars>>

\* the delete path (route POST /templates/:id/delete): a soft delete. The
\* template row (gorm.Model, DeletedAt) leaves the rows every query sees; its
\* versions and fields are not cascaded
DeleteTemplate(userID, templateID) ==
    /\ \E t \in WhereIDAndUser(templates, templateID, userID) :
          templates' = templates \ {t}
    /\ UNCHANGED <<template_versions, template_fields, writerVars, readerVars, historyVars>>

(***************************** preview **************************************)
\* handler PreviewTemplate up to and including the main query of
\* Database.GetTemplateByID; the body (values) takes part in no decision here
PreviewTemplate(userIDStr, templateIDStr, fail) ==
    /\ rpc = "idle"
    /\ rcall' = [op |-> "PreviewTemplate", userID |-> userIDStr, templateID |-> templateIDStr]
    /\ LET tid == UuidParse(templateIDStr)
           uid == UuidParse(userIDStr)
           found == WhereIDAndUser(ReadView.templates, tid.id, uid.id)
       IN IF userIDStr = EmptyString THEN ReadEnd(ErrMissingUserHeader, {})
          ELSE IF tid.err # Nil THEN ReadEnd(tid.err, {})
          ELSE IF uid.err # Nil THEN ReadEnd(uid.err, {})
          ELSE IF fail THEN ReadEnd(ErrStorage, {})
          ELSE IF found = {} THEN ReadEnd(ErrRecordNotFound, {})
          ELSE /\ rres' = [err |-> Nil, templates |-> {Loaded(t, <<>>, <<>>) : t \in found}]
               /\ rpc' = "preloadFields"
    /\ UNCHANGED <<storeVars, writerVars, historyVars>>

\* what handler PreviewTemplate does with the result res of the store call:
\* the error response it writes, or the content it hands to raymond.Render
\* (template.Versions[0].Content)
PreviewTemplateResponse(res) ==
    IF res.err = ErrMissingUserHeader
    THEN [status |-> StatusBadRequest, error |-> "X-User-ID header is required", content |-> Nil]
    ELSE IF res.err # Nil
    THEN [status |-> StatusInternalServerError, error |-> "Failed to retrieve template", content |-> Nil]
    ELSE LET template == CHOOSE t \in res.templates : TRUE
         IN IF Len(template.Versions) = 0
            THEN [status |-> StatusBadRequest, error |-> "Template has no versions", content |-> Nil]
            ELSE [status |-> StatusOK, error |-> Nil, content |-> template.Versions[1].Content]

(***************************** inputs ***************************************)
\* omitted options, and blobs of array brackets: empty, well-formed or broken
AllOptions ==
    {NilOptions, <<>>, <<"[", "]">>, <<"[", "[", "]">>, <<"[", "[", "]", "]">>}

FieldInputs(types, options) == [Key : Keys, Label : Labels, Type : types, Options : options]

CreateInputs(fields) == [Name : {"invoice"}, Content : Contents, Fields : SeqsUpTo(fields, MaxFields)]

UserIDStrings == {UuidString(u) : u \in Owners} \cup {MalformedID, EmptyString}

TemplateIDStrings(n) == {UuidString(i) : i \in 1..n} \cup {MalformedID}

HistoryDTOs ==
    [ID : TemplateIDStrings(2), Name : Names, Version : [Version : {1, 2}, Content : Contents]]

(***************************** specifications *******************************)
\* two concurrent CreateTemplate requests, one per writer, and a reader;
\* fields differ in their keys only
NextConc ==
    \/ \E w \in Writers, input \in CreateInputs(FieldInputs({""}, {NilOptions})) :
          wpc[w] = "idle" /\ CreateTemplate(w, "userA", input)
    \/ \E w \in Writers, fail \in BOOLEAN : TxCreateTemplate(w, fail)
    \/ \E w \in Writers, fail \in BOOLEAN : TxCreateVersion(w, fail)
    \/ \E w \in Writers, fail \in BOOLEAN : TxCreateField(w, fail)
    \/ \E w \in Writers, fail \in BOOLEAN : TxCommit(w, fail)
    \/ \E t \in 1..Cardinality(Writers), fail \in BOOLEAN :
          GetTemplateByID(UuidString("userA"), UuidString(t), fail)
    \/ \E fail \in BOOLEAN : GetTemplates(UuidString("userA"), fail)
    \/ \E fail \in BOOLEAN : PreloadFields(fail)
    \/ \E fail \in BOOLEAN : PreloadVersions(fail)
    \/ ReadReturn

SpecConc == Init /\ [][NextConc]_vars

\* one client at a time; owners, field types and identifiers vary
Next ==
    \/ \E u \in Owners, input \in CreateInputs(FieldInputs(FieldTypes, {NilOptions})) :
          nextID <= MaxCalls /\ rpc = "idle" /\ CreateTemplate("w1", u, input)
    \/ \E fail \in BOOLEAN : TxCreateTemplate("w1", fail)
    \/ \E fail \in BOOLEAN : TxCreateVersion("w1", fail)
    \/ \E fail \in BOOLEAN : TxCreateField("w1", fail)
    \/ \E fail \in BOOLEAN : TxCommit("w1", fail)
    \/ \E u \in UserIDStrings, t \in TemplateIDStrings(MaxCalls + 1), fail \in BOOLEAN :
          wpc["w1"] \in {"idle", "done"} /\ GetTemplateByID(u, t, fail)
    \/ \E fail \in BOOLEAN : PreloadFields(fail)
    \/ \E fail \in BOOLEAN : PreloadVersions(fail)
    \/ ReadReturn

Spec == Init /\ [][Next]_vars

\* one client at a time; field options vary
NextOpts ==
    \/ \E input \in CreateInputs(FieldInputs({""}, AllOptions)) :
          nextID <= MaxCalls /\ rpc = "idle" /\ CreateTemplate("w1", "userA", input)
    \/ \E fail \in BOOLEAN : TxCreateTemplate("w1", fail)
    \/ \E fail \in BOOLEAN : TxCreateVersion("w1", fail)
    \/ \E fail \in BOOLEAN : TxCreateField("w1", fail)
    \/ \E fail \in BOOLEAN : TxCommit("w1", fail)
    \/ \E t \in 1..MaxCalls, fail \in BOOLEAN :
          wpc["w1"] \in {"idle", "done"} /\ GetTemplateByID(UuidString("userA"), UuidString(t), fail)
    \/ \E fail \in BOOLEAN : PreloadFields(fail)
    \/ \E fail \in BOOLEAN : PreloadVersions(fail)
    \/ ReadReturn

SpecOpts == Init /\ [][NextOpts]_vars

\* the history log
NextHist ==
    \/ \E template \in HistoryDTOs, u \in Owners, fail \in BOOLEAN : CreateHistory(template, u, fail)
    \/ \E u \in Owners, fail \in BOOLEAN : GetHistory(u, fail)

SpecHist == Init /\ [][NextHist]_vars

LifeDTOs == [ID : TemplateIDStrings(1), Name : Names, Version : [Version : {1}, Content : Contents]]

AtRest == wpc["w1"] \in {"idle", "done"} /\ rpc = "idle"

\* one client at a time over the whole life of a template without fields:
\* creation, change, deletion, reads, preview and the history log
NextLife ==
    \/ \E input \in CreateInputs({}) :
          nextID <= MaxCalls /\ AtRest /\ CreateTemplate("w1", "userA", input)
    \/ \E fail \in BOOLEAN : TxCreateTemplate("w1", fail)
    \/ \E fail \in BOOLEAN : TxCreateVersion("w1", fail)
    \/ \E fail \in BOOLEAN : TxCommit("w1", fail)
    \/ \E t \in 1..MaxCalls, name \in Names, content \in NewContents :
          AtRest /\ UpdateTemplate("userA", t, name, content)
    \/ \E t \in 1..MaxCalls : AtRest /\ DeleteTemplate("userA", t)
    \/ \E t \in 1..MaxCalls, fail \in BOOLEAN :
          AtRest /\ GetTemplateByID(UuidString("userA"), UuidString(t), fail)
    \/ \E fail \in BOOLEAN : AtRest /\ GetTemplates(UuidString("userA"), fail)
    \/ \E u \in Owners, t \in 1..MaxCalls, fail \in BOOLEAN :
          AtRest /\ PreviewTemplate(UuidString(u), UuidString(t), fail)
    \/ \E fail \in BOOLEAN : PreloadFields(fail)
    \/ \E fail \in BOOLEAN : PreloadVersions(fail)
    \/ ReadReturn
    \/ \E template \in LifeDTOs, fail \in BOOLEAN : AtRest /\ CreateHistory(template, "userA", fail)
    \/ \E fail \in BOOLEAN : AtRest /\ GetHistory("userA", fail)

SpecLife == Init /\ [][NextLife]_vars

(***************************** properties ***********************************)
\* committed rows that carry template identifier tid
TemplateRowsOf(tid) == {t \in templates : t.ID = tid}
VersionRowsOf(tid) == {v \in template_versions : v.TemplateID = tid}
FieldRowsOf(tid) == {f \in template_fields : f.TemplateID = tid}

Count(s, x) == Cardinality({i \in 1..Len(s) : s[i] = x})

SameBag(a, b) == Len(a) = Len(b) /\ \A i \in 1..Len(a) : Count(a, a[i]) = Count(b, a[i])

\* C1: a CreateTemplate call that has returned success has added exactly one
\* Template row, exactly one TemplateVersion row (numbered 1) and one
\* TemplateField row per supplied field; a call that has returned an error, or
\* has not returned yet, has added no row to any table, whichever storage step
\* failed.
C1_AllOrNothing ==
    \A w \in Writers :
        wtid[w] # NilUUID =>
            IF wpc[w] = "done" /\ wres[w].err = Nil
            THEN /\ Cardinality(TemplateRowsOf(wtid[w])) = 1
                 /\ Cardinality(VersionRowsOf(wtid[w])) = 1
                 /\ \A v \in VersionRowsOf(wtid[w]) : v.Version = 1
                 /\ Cardinality(FieldRowsOf(wtid[w])) = Len(wcall[w].input.Fields)
            ELSE /\ TemplateRowsOf(wtid[w]) = {}
                 /\ VersionRowsOf(wtid[w]) = {}
                 /\ FieldRowsOf(wtid[w]) = {}

\* one call committed two fields; the other failed after its template, its
\* version and its first field had been inserted
C1_Witness ==
    \E w, x \in Writers :
        /\ wpc[w] = "done" /\ wres[w].err = Nil /\ Len(wcall[w].input.Fields) = 2
        /\ wpc[x] = "done" /\ wres[x].err = ErrStorage /\ wi[x] = 2

\* the writer whose call created template tid
CreatorOf(tid) == {w \in Writers : wtid[w] = tid}

\* C2: a reader never holds a template whose creating call has not committed
\* (still running, or failed and rolled back), and every template a finished
\* read returns carries its version 1 and exactly the fields supplied at
\* creation.
C2_NoPartialTemplate ==
    \A t \in rres.templates :
        /\ \E w \in CreatorOf(t.ID) : wpc[w] = "done" /\ wres[w].err = Nil
        /\ (rpc = "done" /\ rres.err = Nil) =>
              \A w \in CreatorOf(t.ID) :
                 /\ Len(t.Versions) = 1 /\ t.Versions[1].Version = 1
                 /\ SameBag([i \in 1..Len(t.Fields) |-> t.Fields[i].Key],
                            [i \in 1..Len(wcall[w].input.Fields) |-> wcall[w].input.Fields[i].Key])

\* a finished read returned a two-field template while the other call was
\* inside its field loop
C2_Witness ==
    /\ rpc = "done" /\ rres.err = Nil
    /\ \E t \in rres.templates : Len(t.Fields) = 2
    /\ \E w \in Writers : wpc[w] = "field" /\ wi[w] = 2

\* C4: no two TemplateField rows share (template identifier, key), under any
\* interleaving of the writers; a CreateTemplate whose input repeats a key fails
\* with a persistence error (the unique-index conflict unless storage failed
\* earlier) and persists no row.
C4_FieldKeyUnique ==
    /\ \A f, g \in template_fields : (f.TemplateID = g.TemplateID /\ f.Key = g.Key) => f = g
    /\ \A w \in Writers :
          (/\ wpc[w] = "done"
           /\ \E i, j \in 1..Len(wcall[w].input.Fields) :
                 i # j /\ wcall[w].input.Fields[i].Key = wcall[w].input.Fields[j].Key)
          => /\ wres[w].err \in {ErrDuplicateKey, ErrStorage}
             /\ TemplateRowsOf(wtid[w]) = {}
             /\ VersionRowsOf(wtid[w]) = {}
             /\ FieldRowsOf(wtid[w]) = {}

\* a call whose input repeats a key was refused by the unique index while the
\* other call committed its fields
C4_Witness ==
    \E w, x \in Writers :
        /\ wpc[w] = "done" /\ wres[w].err = ErrDuplicateKey
        /\ wpc[x] = "done" /\ wres[x].err = Nil /\ FieldRowsOf(wtid[x]) # {}

\* C5: for every template the version numbers of its TemplateVersion rows are
\* pairwise distinct and the smallest is 1, and a CreateTemplate that has
\* returned success has left a version numbered 1 for its template.
C5_VersionsStartAtOne ==
    /\ \A t \in templates :
          /\ \A u, v \in VersionRowsOf(t.ID) : u.Version = v.Version => u = v
          /\ \E v \in VersionRowsOf(t.ID) : v.Version = 1
          /\ \A v \in VersionRowsOf(t.ID) : v.Version >= 1
    /\ \A w \in Writers :
          (wpc[w] = "done" /\ wres[w].err = Nil) => \E v \in VersionRowsOf(wtid[w]) : v.Version = 1

\* both calls have committed: two templates, each with its version row
C5_Witness ==
    /\ Cardinality(templates) = 2
    /\ \A w \in Writers : wpc[w] = "done" /\ wres[w].err = Nil

\* the one response a caller gets when the store call of GetTemplateByID fails
FailedToRetrieve == [status |-> 500, error |-> "Failed to retrieve template", data |-> {}]

\* C3: GetTemplateByID(A, T) for a template T owned by another owner returns no
\* template data and ends exactly as GetTemplateByID(A, X) does for a well-formed
\* X that matches no template: the store call returns record-not-found (or the
\* storage failure any query can meet) and the handler writes the same response.
C3_ForeignLooksAbsent ==
    (/\ rpc = "done" /\ rcall.op = "GetTemplateByID"
     /\ UuidParse(rcall.userID).err = Nil /\ UuidParse(rcall.templateID).err = Nil)
    => LET A == UuidParse(rcall.userID).id
           T == UuidParse(rcall.templateID).id
           foreign == \E t \in templates : t.ID = T /\ t.UserID # A
           absent == \A t \in templates : t.ID # T
       IN (foreign \/ absent) =>
             /\ rres.templates = {}
             /\ rres.err \in {ErrRecordNotFound, ErrStorage}
             /\ GetTemplateByIDResponse(rres) = FailedToRetrieve

\* userA asked for a template that userB owns and got record-not-found
C3_Witness ==
    /\ rpc = "done" /\ rcall.op = "GetTemplateByID" /\ rcall.userID = UuidString("userA")
    /\ rres.err = ErrRecordNotFound
    /\ \E t \in templates : UuidString(t.ID) = rcall.templateID /\ t.UserID = "userB"

\* the finished read is GetTemplateByID(owner, id) for the owner and the returned
\* identifier of writer w's successful call
ReadBackOf(w) ==
    /\ wpc[w] = "done" /\ wres[w].err = Nil
    /\ rpc = "done" /\ rres.err = Nil /\ rcall.op = "GetTemplateByID"
    /\ rcall.userID = UuidString(wcall[w].userID)
    /\ rcall.templateID = UuidString(wres[w].id)

ExpectedType(t) == IF t = "" THEN "text" ELSE t

\* C7: reading a successfully created template back with GetTemplateByID yields
\* one template whose DTO has exactly N fields, and the multiset of their (key,
\* label, type) is that of the input fields, an empty input type being read
\* back as "text", whatever order the rows come back in.
C7_RoundTrip ==
    ReadBackOf("w1") =>
        /\ Cardinality(rres.templates) = 1
        /\ \A t \in rres.templates :
              LET in == wcall["w1"].input.Fields
                  out == ToDTO(t).Fields
              IN /\ Len(out) = Len(in)
                 /\ SameBag([i \in 1..Len(out) |-> <<out[i].Key, out[i].Label, out[i].Type>>],
                            [i \in 1..Len(in) |-> <<in[i].Key, in[i].Label, ExpectedType(in[i].Type)>>])

\* a two-field template was read back with its fields in the reverse of the
\* input order
C7_Witness ==
    /\ ReadBackOf("w1")
    /\ \E t \in rres.templates :
          /\ Len(t.Fields) = 2
          /\ t.Fields[1].Key = wcall["w1"].input.Fields[2].Key
          /\ t.Fields[1].Key # t.Fields[2].Key

\* C8: after a successful CreateTemplate the row persisted for each supplied
\* field has type "text" when the supplied type is empty and the supplied type
\* otherwise, and has no options when the options were omitted.
C8_FieldDefaults ==
    (wpc["w1"] = "done" /\ wres["w1"].err = Nil) =>
        \A i \in 1..Len(wcall["w1"].input.Fields) :
            LET f == wcall["w1"].input.Fields[i]
            IN \E r \in FieldRowsOf(wtid["w1"]) :
                  /\ r.ID = <<wtid["w1"], i>>
                  /\ r.Key = f.Key
                  /\ (f.Type = "" => r.Type = "text")
                  /\ (f.Type # "" => r.Type = f.Type)
                  /\ (f.Options = NilOptions => r.Options = NilOptions)

\* a committed call supplied one field without a type and one with type "number"
C8_Witness ==
    /\ wpc["w1"] = "done" /\ wres["w1"].err = Nil
    /\ \E i, j \in 1..Len(wcall["w1"].input.Fields) :
          /\ wcall["w1"].input.Fields[i].Type = ""
          /\ wcall["w1"].input.Fields[j].Type = "number"
    /\ \E r \in FieldRowsOf(wtid["w1"]) : r.Type = "text"

\* a blob of array brackets is well-formed JSON exactly when it is n >= 1
\* opening brackets followed by n closing ones
WellFormedBrackets(s) ==
    /\ Len(s) >= 2
    /\ \E n \in 1..Len(s) :
          /\ Len(s) = 2 * n
          /\ \A i \in 1..Len(s) : s[i] = IF i <= n THEN "[" ELSE "]"

Malformed(f) == f.Options # NilOptions /\ ~WellFormedBrackets(f.Options)

\* C6: a CreateTemplate whose input has a field with options that are not
\* well-formed JSON, at any position, returns an error and leaves no Template,
\* Version or Field row of the call; the JSON error is only ever returned for a
\* field that carries malformed options (never for omitted ones), and the step
\* that returns it leaves the three tables exactly as they were.
C6_MalformedOptionsAbort ==
    /\ [](wpc["w1"] = "done" =>
            LET in == wcall["w1"].input.Fields
                none == /\ TemplateRowsOf(wtid["w1"]) = {}
                        /\ VersionRowsOf(wtid["w1"]) = {}
                        /\ FieldRowsOf(wtid["w1"]) = {}
            IN /\ (\E i \in 1..Len(in) : Malformed(in[i])) => (wres["w1"].err # Nil /\ none)
               /\ wres["w1"].err = ErrJSON => (Malformed(in[wi["w1"]]) /\ none))
    /\ [][(wpc["w1"] # "done" /\ wpc'["w1"] = "done" /\ wres'["w1"].err = ErrJSON)
            => UNCHANGED storeVars]_vars

\* the second field carried malformed options, after a first field with
\* well-formed options had been inserted
C6_Witness ==
    /\ wpc["w1"] = "done" /\ wres["w1"].err = ErrJSON /\ wi["w1"] = 2
    /\ wcall["w1"].input.Fields[1].Options = <<"[", "]">>
    /\ wcall["w1"].input.Fields[2].Options = <<"[", "[", "]">>

\* C9: a field supplied to a successful CreateTemplate with well-formed,
\* non-omitted options is read back by GetTemplateByID with those options.
C9_OptionsRoundTrip ==
    ReadBackOf("w1") =>
        \A t \in rres.templates :
            LET in == wcall["w1"].input.Fields
                out == ToDTO(t).Fields
            IN \A i \in 1..Len(in) :
                  in[i].Options # NilOptions =>
                     \E j \in 1..Len(out) : out[j].Key = in[i].Key /\ out[j].Options = in[i].Options

\* C10: a CreateHistory call that succeeds appends exactly one row holding the
\* given user and the DTO's template identifier, name and version number, and
\* leaves the earlier rows alone (so k identical successful calls leave k rows);
\* a call that fails, and GetHistory, append nothing; a call with a malformed
\* template identifier returns an error.
C10_HistoryAppends ==
    /\ []((hres.call.op = "CreateHistory" /\ UuidParse(hres.call.template.ID).err # Nil)
            => hres.err # Nil)
    /\ [][IF hres'.call.op = "CreateHistory" /\ hres'.err = Nil
          THEN /\ Len(template_history') = Len(template_history) + 1
               /\ SubSeq(template_history', 1, Len(template_history)) = template_history
               /\ LET row == template_history'[Len(template_history')]
                      c == hres'.call
                  IN /\ row.UserID = c.userID
                     /\ UuidString(row.TemplateID) = c.template.ID
                     /\ row.TemplateName = c.template.Name
                     /\ row.Version = c.template.Version.Version
          ELSE template_history' = template_history]_vars

\* two successful calls with the same arguments left two rows
C10_Witness ==
    /\ Len(template_history) = 2
    /\ hres.call.op = "CreateHistory" /\ hres.err = Nil
    /\ template_history[1].ID # template_history[2].ID
    /\ [template_history[1] EXCEPT !.ID = 0] = [template_history[2] EXCEPT !.ID = 0]

HistoryRowsOf(userID) ==
    {template_history[i] : i \in {j \in 1..Len(template_history) : template_history[j].UserID = userID}}

\* C11: history is write-once. No step of any operation (creating, changing,
\* reading or previewing a template, logging or listing history) modifies or
\* removes a TemplateHistory row that exists, so the template name an entry
\* captured stays the name given when it was written, and a GetHistory call
\* that succeeds returns every entry of that user.
C11_HistoryWriteOnce ==
    /\ [][/\ Len(template_history') >= Len(template_history)
          /\ \A i \in 1..Len(template_history) : template_history'[i] = template_history[i]]_vars
    /\ []((hres.call.op = "GetHistory" /\ hres.err = Nil)
            => hres.rows = HistoryRowsOf(hres.call.userID))

\* an entry written for version 1 under the name "invoice" is still returned
\* by GetHistory after the template was renamed and given a second version,
\* and after a second entry was logged for the same template
C11_Witness ==
    /\ Len(template_history) = 2
    /\ template_history[1].TemplateName = "invoice"
    /\ template_history[2].TemplateID = template_history[1].TemplateID
    /\ \E t \in templates :
          /\ t.ID = template_history[1].TemplateID
          /\ t.Name = "letter"
          /\ LatestVersionOf(template_versions, t.ID).Version = 2
    /\ hres.call.op = "GetHistory" /\ hres.err = Nil
    /\ template_history[1] \in hres.rows

\* C13: a preview that renders hands Render the content of the template's
\* latest version, the one with the highest version number, whichever order
\* the store returned the version rows in; a preview of a template that is not
\* found for that owner, or that has no versions, renders nothing and answers
\* with an error.
C13_PreviewLatest ==
    (/\ rpc = "done" /\ rcall.op = "PreviewTemplate"
     /\ UuidParse(rcall.userID).err = Nil /\ UuidParse(rcall.templateID).err = Nil)
    => LET A == UuidParse(rcall.userID).id
           T == UuidParse(rcall.templateID).id
           response == PreviewTemplateResponse(rres)
       IN IF WhereIDAndUser(templates, T, A) = {} \/ VersionRowsOf(T) = {}
          THEN response.status # StatusOK /\ response.content = Nil
          ELSE response.status = StatusOK
                  => response.content = LatestVersionOf(template_versions, T).Content

====
